---------------------------- MODULE Spec2Model ----------------------------
(***************************************************************************)
(* A model of src/dataset.py: the conversion of question-answering         *)
(* annotations into fixed-length feature records.                          *)
(*                                                                         *)
(*   SpecAlign   _improve_answer_span on bounded token lists               *)
(*   SpecFeat    convert_example_to_features on one example                *)
(*   SpecMaxContext  _new_check_is_max_context on bounded window lists     *)
(*   SpecCreate  AlibabaProcessor._create_examples on a list of entries    *)
(*   SpecBatch   convert_examples_to_features: the worker pool and the     *)
(*               sequential numbering pass                                 *)
(*                                                                         *)
(* A token is the sequence of its characters, so that ''.join is a real    *)
(* concatenation: the tokens "0","1" and the token "01" join to the same   *)
(* text.  Python indices are 0-based and are kept 0-based in every value   *)
(* the program stores; only the access into a TLA+ sequence adds one.      *)
(***************************************************************************)
EXTENDS Integers, Sequences, FiniteSets, TLC

VARIABLES
    pc,               \* position of the running call
    doc_tokens,       \* tokenizer.tokenize(example.context_text)
    answer_tokens,    \* tokenizer.tokenize(example.answer_text)
    input_start,      \* fallback start (example.start_position)
    input_end,        \* fallback end (example.end_position)
    tok_span,         \* <<tok_start_position, tok_end_position>>
    call,             \* arguments of convert_example_to_features and the tokenizer in use
    span_doc_tokens,  \* the context tokens handed to the next encode_plus
    spans,            \* the windows built so far
    features,         \* the features built so far
    input_data,       \* the question entries given to _create_examples
    next_entry,       \* 0-based index of the entry the loop handles next
    set_type,         \* "train" or "dev"
    examples,         \* accepted examples
    invalid_examples, \* qas_id of each rejected example
    returned,         \* the value _create_examples returned
    at_position,      \* the position asked of _new_check_is_max_context
    owners,           \* its verdict for each span index
    pool,             \* the worker processes of convert_examples_to_features
    new_features,     \* the numbered features
    unique_id,        \* the next unique_id
    example_index,    \* the next example_index
    next_list         \* 0-based index of the feature list the numbering loop handles next

vars == <<pc, doc_tokens, answer_tokens, input_start, input_end, tok_span, call,
          span_doc_tokens, spans, features, input_data, next_entry, set_type, examples,
          invalid_examples, returned, at_position, owners, pool, new_features,
          unique_id, example_index, next_list>>

alignVars == <<doc_tokens, answer_tokens, input_start, input_end, tok_span>>
featVars == <<call, span_doc_tokens, spans, features>>
createVars == <<input_data, next_entry, set_type, examples, invalid_examples, returned>>
maxVars == <<at_position, owners>>
batchVars == <<pool, new_features, unique_id, example_index, next_list>>

-----------------------------------------------------------------------------
(* Bounds *)

MaxAlignDocLen == 3
MaxAlignAnswerLen == 2
MaxFallback == 2

-----------------------------------------------------------------------------
(* Python helpers *)

Min(a, b) == IF a < b THEN a ELSE b
Max(a, b) == IF a > b THEN a ELSE b

SeqsUpTo(S, n) == UNION {[1..k -> S] : k \in 0..n}

\* s[lo:hi] for 0 <= lo, with Python's clipping of hi and of an lo past the end
Slice(s, lo, hi) == SubSeq(s, lo + 1, Min(hi, Len(s)))

\* ''.join(tokens)
RECURSIVE Join(_)
Join(tokens) ==
    IF tokens = <<>> THEN <<>> ELSE Head(tokens) \o Join(Tail(tokens))

\* The value of a variable the running specification does not use
Idle == "idle"

FeatIdle == call = Idle /\ span_doc_tokens = Idle /\ spans = Idle /\ features = Idle
CreateIdle ==
    /\ input_data = Idle /\ next_entry = Idle /\ set_type = Idle
    /\ examples = Idle /\ invalid_examples = Idle /\ returned = Idle
MaxIdle == at_position = Idle /\ owners = Idle
BatchIdle ==
    /\ pool = Idle /\ new_features = Idle /\ unique_id = Idle
    /\ example_index = Idle /\ next_list = Idle

-----------------------------------------------------------------------------
(* _improve_answer_span *)

\* the token alphabet of SpecAlign, a character being a number: the tokens
\* "", "0", "1" and "01"
AlignTokens == {<<>>, <<0>>, <<1>>, <<0, 1>>}

NoMatch == <<-1, -1>>

\* mutant: the inner range stops one short, range(len-1, new_start, -1)
RECURSIVE ScanEndShort(_, _, _, _)
ScanEndShort(doc, ans, new_start, new_end) ==
    IF new_end <= new_start THEN NoMatch
    ELSE IF Join(Slice(doc, new_start, new_end + 1)) = Join(ans)
         THEN <<new_start, new_end>>
         ELSE ScanEndShort(doc, ans, new_start, new_end - 1)

\* mutant: the ends are scanned upwards, range(new_start, len(doc_tokens))
ScanEndAscending(doc, ans, new_start, new_end) ==
    LET hits == {e \in new_start..new_end :
                    Join(Slice(doc, new_start, e + 1)) = Join(ans)}
    IN  IF hits = {} THEN NoMatch
        ELSE <<new_start, CHOOSE e \in hits : \A x \in hits : e <= x>>

\* for new_end in range(len(doc_tokens)-1, new_start - 1, -1): the first match
RECURSIVE ScanEnd(_, _, _, _)
ScanEnd(doc, ans, new_start, new_end) ==
    IF new_end < new_start THEN NoMatch
    ELSE IF Join(Slice(doc, new_start, new_end + 1)) = Join(ans)
         THEN <<new_start, new_end>>
         ELSE ScanEnd(doc, ans, new_start, new_end - 1)

\* for new_start in range(0, len(doc_tokens)): the first match
RECURSIVE ScanStart(_, _, _)
ScanStart(doc, ans, new_start) ==
    IF new_start >= Len(doc) THEN NoMatch
    ELSE LET hit == ScanEnd(doc, ans, new_start, Len(doc) - 1)
         IN  IF hit # NoMatch THEN hit ELSE ScanStart(doc, ans, new_start + 1)

\* mutant: the fallback pair comes back swapped
ImproveAnswerSpanSwapped(doc, ans, in_start, in_end) ==
    LET hit == ScanStart(doc, ans, 0)
    IN  IF hit # NoMatch THEN hit ELSE <<in_end, in_start>>

_improve_answer_span(doc, ans, in_start, in_end) ==
    LET hit == ScanStart(doc, ans, 0)
    IN  IF hit # NoMatch THEN hit ELSE <<in_start, in_end>>

InitAlign ==
    /\ pc = "align"
    /\ doc_tokens \in SeqsUpTo(AlignTokens, MaxAlignDocLen)
    /\ answer_tokens \in SeqsUpTo(AlignTokens, MaxAlignAnswerLen)
    /\ input_start \in 0..MaxFallback
    /\ input_end \in 0..MaxFallback
    /\ tok_span = NoMatch
    /\ FeatIdle /\ CreateIdle /\ MaxIdle /\ BatchIdle

ImproveAnswerSpan ==
    /\ pc = "align"
    /\ tok_span' = _improve_answer_span(doc_tokens, answer_tokens, input_start, input_end)
    /\ pc' = "aligned"
    /\ UNCHANGED <<doc_tokens, answer_tokens, input_start, input_end>>
    /\ UNCHANGED <<featVars, createVars, maxVars, batchVars>>

NextAlign == ImproveAnswerSpan

SpecAlign == InitAlign /\ [][NextAlign]_vars

\* answer_tokens occurs in doc_tokens as a contiguous subsequence
Occurs(ans, doc) ==
    \E i \in 0..(Len(doc) - Len(ans)) : SubSeq(doc, i + 1, i + Len(ans)) = ans

\* (s, e) is a span of doc whose joined text is the joined answer
Matches(doc, ans, s, e) ==
    /\ 0 <= s /\ s <= e /\ e < Len(doc)
    /\ Join(SubSeq(doc, s + 1, e + 1)) = Join(ans)

SomeMatch(doc, ans) ==
    \E s \in 0..(Len(doc) - 1) : \E e \in s..(Len(doc) - 1) : Matches(doc, ans, s, e)

\* C1 as stated: whenever answer_tokens occurs in doc_tokens as a contiguous
\* subsequence, the returned pair is a span of doc_tokens that joins to the
\* answer text.  Violated: the empty answer occurs in every document.
C1_AsStated ==
    (pc = "aligned" /\ Occurs(answer_tokens, doc_tokens))
        => Matches(doc_tokens, answer_tokens, tok_span[1], tok_span[2])

\* C1 amended: whenever a NON-EMPTY answer_tokens occurs in doc_tokens as a
\* contiguous subsequence, the returned pair (s, e) has 0 <= s <= e < len(doc_tokens)
\* and doc_tokens[s..e] joins to the joined answer, whatever the fallback pair.
C1_AlignmentCorrect ==
    (pc = "aligned" /\ answer_tokens # <<>> /\ Occurs(answer_tokens, doc_tokens))
        => Matches(doc_tokens, answer_tokens, tok_span[1], tok_span[2])

\* a two-token answer found in a longer document, with a fallback that is no match
C1_Witness ==
    /\ pc = "aligned"
    /\ Len(answer_tokens) = 2 /\ Len(doc_tokens) = 3
    /\ Occurs(answer_tokens, doc_tokens)
    /\ ~Matches(doc_tokens, answer_tokens, input_start, input_end)
    /\ Matches(doc_tokens, answer_tokens, tok_span[1], tok_span[2])

\* C2: when no span of doc_tokens joins to the answer text (an empty
\* doc_tokens included), the result is exactly (input_start, input_end).
C2_AlignmentFallback ==
    (pc = "aligned" /\ ~SomeMatch(doc_tokens, answer_tokens))
        => tok_span = <<input_start, input_end>>

\* a non-empty document without the answer, and a fallback with start # end
C2_Witness ==
    /\ pc = "aligned"
    /\ doc_tokens # <<>> /\ answer_tokens # <<>>
    /\ ~SomeMatch(doc_tokens, answer_tokens)
    /\ input_start # input_end
    /\ tok_span = <<input_start, input_end>>

-----------------------------------------------------------------------------
(* The tokenizer, as convert_example_to_features uses it.  A context token  *)
(* is known by its 0-based position in doc_tokens, so that what a window    *)
(* encodes can be told apart from what the stride arithmetic records.       *)

CLS == <<"[CLS]", -1>>
SEP == <<"[SEP]", -1>>
PAD == <<"[PAD]", -1>>
QueryId(i) == <<"query", i>>
ContextId(p) == <<"context", p>>

\* tokenizer.max_len - tokenizer.max_len_single_sentence
SequenceAddedTokens == 2
\* tokenizer.max_len - tokenizer.max_len_sentences_pair
SequencePairAddedTokens == 3

\* len(tokenizer.encode(question_text, truncation=True, max_length=max_query_length))
TruncatedQueryLen(question_len, max_query_length) == Min(question_len, max_query_length)

Repeat(x, n) == [i \in 1..n |-> x]

\* seq.index(x), 0-based; x occurs in seq
IndexOf(seq, x) == (CHOOSE i \in 1..Len(seq) :
                       seq[i] = x /\ \A j \in 1..(i - 1) : seq[j] # x) - 1

Contains(seq, x) == \E i \in 1..Len(seq) : seq[i] = x

\* tokenizer.encode_plus(query, pair, truncation='only_second', padding='max_length',
\* max_length, return_overflowing_tokens, stride): simple truncation.  The first
\* budget tokens of pair are kept; the overflow is pair[-window_len:], the removed
\* suffix preceded by stride tokens of overlap.
EncodePlus(query_len, pair, max_length, stride, padding_side) ==
    LET budget == max_length - query_len - SequencePairAddedTokens
        over == Len(pair) > budget
        num_remove == Len(pair) - budget
        window_len == Min(Len(pair), stride + num_remove)
        kept == IF over THEN SubSeq(pair, 1, budget) ELSE pair
        overflow == IF ~over THEN <<>>
                    ELSE IF window_len > 0
                         THEN SubSeq(pair, Len(pair) - window_len + 1, Len(pair))
                         ELSE SubSeq(pair, 1 - window_len, Len(pair))
        first == <<CLS>> \o [i \in 1..query_len |-> QueryId(i - 1)] \o <<SEP>>
        second == [i \in 1..Len(kept) |-> ContextId(kept[i])] \o <<SEP>>
        npad == max_length - Len(first) - Len(second)
        left == padding_side = "left"
    IN  [input_ids |-> IF left THEN Repeat(PAD, npad) \o first \o second
                       ELSE first \o second \o Repeat(PAD, npad),
         attention_mask |-> IF left
                            THEN Repeat(0, npad) \o Repeat(1, Len(first) + Len(second))
                            ELSE Repeat(1, Len(first) + Len(second)) \o Repeat(0, npad),
         token_type_ids |-> IF left
                            THEN Repeat(0, npad + Len(first)) \o Repeat(1, Len(second))
                            ELSE Repeat(0, Len(first)) \o Repeat(1, Len(second))
                                 \o Repeat(0, npad),
         context |-> kept,
         overflowing_tokens |-> overflow]

\* tokenizer.get_special_tokens_mask(ids, already_has_special_tokens=True)
IsSpecial(id) == id \in {CLS, SEP, PAD}

-----------------------------------------------------------------------------
(* convert_example_to_features: the slicing loop *)

\* mutant: the remaining length is taken one short
ParagraphLenShort(doc_len, n_spans, doc_stride, max_seq_length, query_len) ==
    Min(doc_len - n_spans * doc_stride - 1,
        max_seq_length - query_len - SequencePairAddedTokens)

\* paragraph_len
ParagraphLen(doc_len, n_spans, doc_stride, max_seq_length, query_len) ==
    Min(doc_len - n_spans * doc_stride,
        max_seq_length - query_len - SequencePairAddedTokens)

\* token_to_orig_map
TokenToOrigMap(paragraph_len, query_len, n_spans, doc_stride) ==
    [index \in {query_len + SequenceAddedTokens + i : i \in 0..(paragraph_len - 1)} |->
        n_spans * doc_stride + (index - query_len - SequenceAddedTokens)]

\* non_padded_ids
NonPaddedIds(input_ids) ==
    IF Contains(input_ids, PAD)
    THEN Slice(input_ids, 0, IndexOf(input_ids, PAD))
    ELSE input_ids

\* one pass of the while loop: the span appended to spans
NewSpan(c, doc_len, n_spans, pair) ==
    LET query_len == TruncatedQueryLen(c.question_len, c.max_query_length)
        encoded_dict == EncodePlus(query_len, pair, c.max_seq_length,
                            c.max_seq_length - c.doc_stride - query_len
                                - SequencePairAddedTokens,
                            c.padding_side)
        paragraph_len == ParagraphLen(doc_len, n_spans, c.doc_stride,
                                      c.max_seq_length, query_len)
    IN  [input_ids |-> encoded_dict.input_ids,
         attention_mask |-> encoded_dict.attention_mask,
         token_type_ids |-> encoded_dict.token_type_ids,
         context |-> encoded_dict.context,
         overflowing_tokens |-> encoded_dict.overflowing_tokens,
         paragraph_len |-> paragraph_len,
         tokens |-> NonPaddedIds(encoded_dict.input_ids),
         token_to_orig_map |-> TokenToOrigMap(paragraph_len, query_len, n_spans,
                                              c.doc_stride),
         truncated_query_with_special_tokens_length |-> query_len + SequenceAddedTokens,
         token_is_max_context |-> <<>>,
         start |-> n_spans * c.doc_stride,
         length |-> paragraph_len]

\* while len(spans) * doc_stride < len(doc_tokens)
SliceGuard(c, doc_len, n_spans) == n_spans * c.doc_stride < doc_len

\* the whole loop, from the spans built so far
RECURSIVE SliceLoop(_, _, _, _)
SliceLoop(c, doc_len, sp, pair) ==
    IF ~SliceGuard(c, doc_len, Len(sp)) THEN sp
    ELSE LET span == NewSpan(c, doc_len, Len(sp), pair)
         IN  IF span.overflowing_tokens = <<>> THEN Append(sp, span)
             ELSE SliceLoop(c, doc_len, Append(sp, span), span.overflowing_tokens)

-----------------------------------------------------------------------------
(* _new_check_is_max_context.  The score min(left, right) + 0.01 * length   *)
(* is kept as the integer 100 * min(left, right) + length, which orders the *)
(* same way for every length below 100.                                     *)

\* mutant: the test "if position > end: continue" is lost
CoversNoUpper(doc_span, position) ==
    ~(position < doc_span.start)

\* neither continue is taken: doc_span covers position
Covers(doc_span, position) ==
    LET end == doc_span.start + doc_span.length - 1
    IN  ~(position < doc_span.start) /\ ~(position > end)

Score(doc_span, position) ==
    LET end == doc_span.start + doc_span.length - 1
        num_left_context == position - doc_span.start
        num_right_context == end - position
    IN  100 * Min(num_left_context, num_right_context) + doc_span.length

NoSpan == -1

\* the loop over enumerate(doc_spans) from 0-based span_index on; best is
\* <<best_score, best_span_index>>, best_span_index = NoSpan standing for None
RECURSIVE BestSpanFrom(_, _, _, _)
BestSpanFrom(doc_spans, position, span_index, best) ==
    IF span_index >= Len(doc_spans) THEN best[2]
    ELSE LET doc_span == doc_spans[span_index + 1]
         IN  IF ~Covers(doc_span, position)
             THEN BestSpanFrom(doc_spans, position, span_index + 1, best)
             ELSE IF best[2] = NoSpan \/ Score(doc_span, position) > best[1]
                  THEN BestSpanFrom(doc_spans, position, span_index + 1,
                                    <<Score(doc_span, position), span_index>>)
                  ELSE BestSpanFrom(doc_spans, position, span_index + 1, best)

_new_check_is_max_context(doc_spans, cur_span_index, position) ==
    cur_span_index = BestSpanFrom(doc_spans, position, 0, <<0, NoSpan>>)

\* lines 160-168: token_is_max_context of the span at 0-based doc_span_index
TokenIsMaxContext(sp, doc_span_index, doc_stride, padding_side) ==
    LET span == sp[doc_span_index + 1]
        Index(j) == IF padding_side = "left" THEN j
                    ELSE span.truncated_query_with_special_tokens_length + j
    IN  [index \in {Index(j) : j \in 0..(span.paragraph_len - 1)} |->
            LET j == CHOOSE j \in 0..(span.paragraph_len - 1) : Index(j) = index
            IN  _new_check_is_max_context(sp, doc_span_index,
                                          doc_span_index * doc_stride + j)]

MarkedSpans(sp, doc_stride, padding_side) ==
    [k \in 1..Len(sp) |->
        [sp[k] EXCEPT !.token_is_max_context =
            TokenIsMaxContext(sp, k - 1, doc_stride, padding_side)]]

-----------------------------------------------------------------------------
(* convert_example_to_features: one feature per span *)

\* p_mask, in the order the source overrides it
PMask(span, query_len) ==
    LET ids == span.input_ids
        cls_index == IndexOf(ids, CLS)
        ones == [i \in 1..Len(span.token_type_ids) |-> 1]
        context0 == [i \in 1..Len(ones) |->
                        IF i - 1 >= query_len + SequenceAddedTokens THEN 0 ELSE ones[i]]
        pad1 == [i \in 1..Len(ones) |-> IF ids[i] = PAD THEN 1 ELSE context0[i]]
        special1 == [i \in 1..Len(ones) |-> IF IsSpecial(ids[i]) THEN 1 ELSE pad1[i]]
    IN  [i \in 1..Len(ones) |-> IF i - 1 = cls_index THEN 0 ELSE special1[i]]

\* mutant: a span that overlaps the gold span at all is kept
OutOfSpanNoOverlap(doc_start, doc_end, tok_start_position, tok_end_position) ==
    ~(tok_end_position >= doc_start /\ tok_start_position <= doc_end)

\* out_of_span
OutOfSpan(doc_start, doc_end, tok_start_position, tok_end_position) ==
    ~(tok_start_position >= doc_start /\ tok_end_position <= doc_end)

\* mutant: the offset forgets the special tokens
DocOffsetNoSpecial(query_len) == query_len

\* doc_offset
DocOffset(query_len) == query_len + SequenceAddedTokens

\* <<start_position, end_position, span_is_impossible>> of a span
SpanPositions(c, span, tok) ==
    LET cls_index == IndexOf(span.input_ids, CLS)
        query_len == TruncatedQueryLen(c.question_len, c.max_query_length)
        doc_start == span.start
        doc_end == span.start + span.length - 1
    IN  IF c.is_training /\ ~c.is_impossible
        THEN IF OutOfSpan(doc_start, doc_end, tok[1], tok[2])
             THEN <<cls_index, cls_index, TRUE>>
             ELSE <<tok[1] - doc_start + DocOffset(query_len),
                    tok[2] - doc_start + DocOffset(query_len), FALSE>>
        ELSE <<0, 0, c.is_impossible>>

\* AlibabaFeatures(...)
AlibabaFeatures(c, span, tok) ==
    LET query_len == TruncatedQueryLen(c.question_len, c.max_query_length)
        positions == SpanPositions(c, span, tok)
    IN  [input_ids |-> span.input_ids,
         attention_mask |-> span.attention_mask,
         token_type_ids |-> span.token_type_ids,
         cls_index |-> IndexOf(span.input_ids, CLS),
         p_mask |-> PMask(span, query_len),
         example_index |-> 0,
         unique_id |-> 0,
         paragraph_len |-> span.paragraph_len,
         token_is_max_context |-> span.token_is_max_context,
         tokens |-> span.tokens,
         token_to_orig_map |-> span.token_to_orig_map,
         start_position |-> positions[1],
         end_position |-> positions[2],
         is_impossible |-> positions[3],
         qas_id |-> c.qas_id]

-----------------------------------------------------------------------------
(* SpecFeat: convert_example_to_features on one example *)

MaxDocLen == 5
MaxAnswerLen == 2
MaxStartChar == 2
MaxSeqLength == 7
MaxQuestionLen == 3
MaxQueryLength == 2

\* a tokenized context of n tokens, the token at position p being the text "p"
DocOf(n) == [i \in 1..n |-> <<i - 1>>]

\* tokenized answers: a run of at most MaxAnswerLen context tokens, two
\* neighbouring context tokens tokenized as one, or text the context lacks
AnswersOf(doc) ==
    {SubSeq(doc, s + 1, e + 1) :
        <<s, e>> \in {se \in (0..(Len(doc) - 1)) \X (0..(Len(doc) - 1)) :
                        se[1] <= se[2] /\ se[2] - se[1] < MaxAnswerLen}}
    \cup {<<Join(SubSeq(doc, s + 1, s + 2))>> : s \in 0..(Len(doc) - 2)}
    \cup {<< <<-1>> >>, << <<-1>>, <<-1>> >>}

InitFeat ==
    /\ pc = "tokenize"
    /\ \E n \in 0..MaxDocLen : doc_tokens = DocOf(n)
    /\ \E msl \in {MaxSeqLength - 1, MaxSeqLength}, ql \in 1..MaxQuestionLen,
          tr \in BOOLEAN, imp \in BOOLEAN, side \in {"left", "right"} :
          \E ds \in 1..(msl - 1) :
             /\ msl - TruncatedQueryLen(ql, MaxQueryLength) - SequencePairAddedTokens >= 1
             /\ call = [max_seq_length |-> msl, doc_stride |-> ds,
                        max_query_length |-> MaxQueryLength, is_training |-> tr,
                        is_impossible |-> imp, question_len |-> ql,
                        padding_side |-> side, qas_id |-> 0]
    /\ IF call.is_training /\ ~call.is_impossible
       THEN /\ answer_tokens \in AnswersOf(doc_tokens)
            /\ input_start \in 0..MaxStartChar
            /\ input_end = input_start + Len(Join(answer_tokens)) - 1
       ELSE /\ answer_tokens = <<>>
            /\ input_start = 0
            /\ input_end = 0
    /\ tok_span = NoMatch
    /\ span_doc_tokens = <<>> /\ spans = <<>> /\ features = <<>>
    /\ CreateIdle /\ MaxIdle /\ BatchIdle

\* lines 91-115: the gold token span, and the first pair handed to encode_plus
TokenizeAndAlign ==
    /\ pc = "tokenize"
    /\ tok_span' = IF call.is_training /\ ~call.is_impossible
                   THEN _improve_answer_span(doc_tokens, answer_tokens,
                                             input_start, input_end)
                   ELSE tok_span
    /\ span_doc_tokens' = [i \in 1..Len(doc_tokens) |-> i - 1]
    /\ pc' = "slice"
    /\ UNCHANGED <<doc_tokens, answer_tokens, input_start, input_end, call, spans,
                   features, createVars, maxVars, batchVars>>

\* mutant: line 158 is lost, every pass encodes the pair of the first one
SliceWindowNoChain ==
    /\ pc = "slice"
    /\ SliceGuard(call, Len(doc_tokens), Len(spans))
    /\ LET span == NewSpan(call, Len(doc_tokens), Len(spans), span_doc_tokens)
       IN  /\ spans' = Append(spans, span)
           /\ IF span.overflowing_tokens = <<>>
              THEN pc' = "max_context" /\ UNCHANGED span_doc_tokens
              ELSE pc' = "slice" /\ UNCHANGED span_doc_tokens
    /\ UNCHANGED <<alignVars, call, features, createVars, maxVars, batchVars>>

\* lines 116-158: one pass of the while loop
SliceWindow ==
    /\ pc = "slice"
    /\ SliceGuard(call, Len(doc_tokens), Len(spans))
    /\ LET span == NewSpan(call, Len(doc_tokens), Len(spans), span_doc_tokens)
       IN  /\ spans' = Append(spans, span)
           /\ IF span.overflowing_tokens = <<>>
              THEN pc' = "max_context" /\ UNCHANGED span_doc_tokens
              ELSE pc' = "slice" /\ span_doc_tokens' = span.overflowing_tokens
    /\ UNCHANGED <<alignVars, call, features, createVars, maxVars, batchVars>>

\* line 116: the loop condition fails
SliceExit ==
    /\ pc = "slice"
    /\ ~SliceGuard(call, Len(doc_tokens), Len(spans))
    /\ pc' = "max_context"
    /\ UNCHANGED <<alignVars, featVars, createVars, maxVars, batchVars>>

\* lines 160-168
MarkMaxContext ==
    /\ pc = "max_context"
    /\ spans' = MarkedSpans(spans, call.doc_stride, call.padding_side)
    /\ pc' = "assemble"
    /\ UNCHANGED <<alignVars, call, span_doc_tokens, features, createVars, maxVars,
                   batchVars>>

\* lines 169-227: one pass of the loop over spans
AssembleFeature ==
    /\ pc = "assemble"
    /\ Len(features) < Len(spans)
    /\ features' = Append(features,
                          AlibabaFeatures(call, spans[Len(features) + 1], tok_span))
    /\ UNCHANGED <<pc, alignVars, call, span_doc_tokens, spans, createVars, maxVars,
                   batchVars>>

\* line 228
ReturnFeatures ==
    /\ pc = "assemble"
    /\ Len(features) = Len(spans)
    /\ pc' = "done"
    /\ UNCHANGED <<alignVars, featVars, createVars, maxVars, batchVars>>

NextFeat ==
    \/ TokenizeAndAlign
    \/ SliceWindow
    \/ SliceExit
    \/ MarkMaxContext
    \/ AssembleFeature
    \/ ReturnFeatures

SpecFeat == InitFeat /\ [][NextFeat]_vars

\* the whole function, as the worker pool applies it
convert_example_to_features(c, doc, ans, in_start, in_end) ==
    LET tok == IF c.is_training /\ ~c.is_impossible
               THEN _improve_answer_span(doc, ans, in_start, in_end)
               ELSE NoMatch
        sliced == SliceLoop(c, Len(doc), <<>>, [i \in 1..Len(doc) |-> i - 1])
        marked == MarkedSpans(sliced, c.doc_stride, c.padding_side)
    IN  [k \in 1..Len(marked) |-> AlibabaFeatures(c, marked[k], tok)]

-----------------------------------------------------------------------------
(* Claims on convert_example_to_features *)

Sliced == pc \in {"max_context", "assemble", "done"}

QueryLen == TruncatedQueryLen(call.question_len, call.max_query_length)

Budget == call.max_seq_length - QueryLen - SequencePairAddedTokens

WindowRange(span) == span.start..(span.start + span.length - 1)

Covered == UNION {WindowRange(spans[k]) : k \in 1..Len(spans)}

\* C3 as stated: for every positive doc_stride < max_seq_length the windows'
\* ranges cover [0, len(doc_tokens)) without a gap.  Violated when doc_stride
\* exceeds the context budget of a window.
C3_AsStated ==
    (Sliced /\ 0 < call.doc_stride /\ call.doc_stride < call.max_seq_length)
        => Covered = 0..(Len(doc_tokens) - 1)

\* C3 amended: for every positive doc_stride not above the context budget
\* max_seq_length - len(truncated_query) - sequence_pair_added_tokens, the
\* union of the windows' ranges [start, start+length) is exactly
\* [0, len(doc_tokens)).
C3_WindowCoverage ==
    (Sliced /\ 0 < call.doc_stride /\ call.doc_stride <= Budget)
        => Covered = 0..(Len(doc_tokens) - 1)

\* three or more overlapping windows that cover the context
C3_Witness ==
    /\ pc = "done"
    /\ Len(spans) >= 3
    /\ call.doc_stride < Budget
    /\ Covered = 0..(Len(doc_tokens) - 1)
    /\ Len(doc_tokens) = MaxDocLen

Possible == call.is_training /\ ~call.is_impossible

\* the gold token span lies entirely inside the k-th window
GoldInside(k) ==
    /\ spans[k].start <= tok_span[1]
    /\ tok_span[2] <= spans[k].start + spans[k].length - 1

\* the gold token span shares a position with the k-th window
GoldOverlaps(k) ==
    /\ tok_span[1] <= spans[k].start + spans[k].length - 1
    /\ spans[k].start <= tok_span[2]

PointsAtCls(f) ==
    f.is_impossible /\ f.start_position = f.cls_index /\ f.end_position = f.cls_index

C6_SpanRoundTrip ==
    Possible => \A k \in 1..Len(features) :
        GoldInside(k) =>
            LET f == features[k]
            IN  /\ ~f.is_impossible
                /\ f.start_position \in DOMAIN f.token_to_orig_map
                /\ f.end_position \in DOMAIN f.token_to_orig_map
                /\ f.token_to_orig_map[f.start_position] = tok_span[1]
                /\ f.token_to_orig_map[f.end_position] = tok_span[2]
                /\ f.start_position <= f.end_position

\* a two-token gold span relocated into a window that does not start at 0
C6_Witness ==
    /\ pc = "done" /\ Possible
    /\ \E k \in 2..Len(features) :
          /\ GoldInside(k) /\ tok_span[1] < tok_span[2]
          /\ features[k].token_to_orig_map[features[k].start_position] = tok_span[1]
          /\ features[k].start_position < features[k].end_position

\* C7: every feature of an example marked impossible is impossible and has
\* start_position = end_position = cls_index, wherever the CLS token sits.
\* Violated: lines 188-189 leave both at 0, which is the CLS position only
\* when the sequence is not padded on the left.
C7_ImpossiblePointsAtCls ==
    call.is_impossible => \A k \in 1..Len(features) : PointsAtCls(features[k])

-----------------------------------------------------------------------------
(* SpecMaxContext: _new_check_is_max_context on bounded lists of windows *)

MaxWindows == 3
MaxWinStart == 2
MaxWinLen == 2

InitMaxContext ==
    /\ pc = "check"
    /\ spans \in SeqsUpTo([start : 0..MaxWinStart, length : 1..MaxWinLen], MaxWindows)
    /\ at_position \in 0..(MaxWinStart + MaxWinLen)
    /\ owners = <<>>
    /\ doc_tokens = Idle /\ answer_tokens = Idle /\ input_start = Idle
    /\ input_end = Idle /\ tok_span = Idle
    /\ call = Idle /\ span_doc_tokens = Idle /\ features = Idle
    /\ CreateIdle /\ BatchIdle

\* _new_check_is_max_context(spans, i, at_position) for every span index i
CheckIsMaxContext ==
    /\ pc = "check"
    /\ owners' = [k \in 1..Len(spans) |->
                    _new_check_is_max_context(spans, k - 1, at_position)]
    /\ pc' = "checked"
    /\ UNCHANGED <<alignVars, featVars, createVars, at_position, batchVars>>

NextMaxContext == CheckIsMaxContext

SpecMaxContext == InitMaxContext /\ [][NextMaxContext]_vars

Covering == {k \in 1..Len(spans) : at_position \in WindowRange(spans[k])}

Owning == {k \in 1..Len(owners) : owners[k]}

\* C4: for a position some window covers, exactly one window index is reported
\* as max-context owner and that window covers the position; for a position no
\* window covers, no index is reported.
C4_MaxContextPartition ==
    pc = "checked" =>
        /\ Covering # {} => (Cardinality(Owning) = 1 /\ Owning \subseteq Covering)
        /\ Covering = {} => Owning = {}

\* three windows cover the position, one of them owns it
C4_Witness ==
    /\ pc = "checked"
    /\ Cardinality(Covering) = 3
    /\ Cardinality(Owning) = 1
    /\ \E k \in Covering : k \notin Owning

-----------------------------------------------------------------------------
(* SpecCreate: AlibabaProcessor._create_examples.  A text is the sequence   *)
(* of its characters.  The three nested loops run over one flat list of     *)
(* question entries, each with its paragraph's context; the entry at        *)
(* 0-based index i carries qas_id i.  An entry that is not impossible has   *)
(* at least one answer.  The length statistics of lines 505-511 are only    *)
(* logged and are left out.                                                 *)

MaxEntries == 3

\* Python's None, for a text
None == <<-1>>

\* "if x" for a text or None
Truthy(x) == x # None /\ x # <<>>

ContextText == <<0, 1, 2>>

\* answers found in ContextText at their answer_start, answers that are not,
\* and the empty answer
AnswerChoices ==
    {[text |-> <<1, 2>>, answer_start |-> 1], [text |-> <<1, 2>>, answer_start |-> 0],
     [text |-> <<2>>, answer_start |-> 2], [text |-> <<>>, answer_start |-> 0]}

Entries ==
    {[question |-> q, context |-> ContextText, is_impossible |-> FALSE, answers |-> <<a>>] :
        q \in {<<>>, <<9>>}, a \in AnswerChoices}
    \cup {[question |-> q, context |-> ContextText, is_impossible |-> TRUE,
           answers |-> <<>>] : q \in {<<>>, <<9>>}}

\* AlibabaExample.__init__
AlibabaExample(qas_id, question_text, context_text, answer_text, start_position_character, is_impossible, answers) ==
    LET has_answer == ~is_impossible /\ Truthy(answer_text)
    IN  [qas_id |-> qas_id,
         question_text |-> question_text,
         context_text |-> context_text,
         answer_text |-> answer_text,
         is_impossible |-> is_impossible,
         answers |-> answers,
         start_position |-> IF has_answer THEN start_position_character ELSE 0,
         end_position |-> IF has_answer
                          THEN start_position_character + Len(answer_text) - 1
                          ELSE 0]

\* lines 466-492: the example built from the entry at index i
ExampleOf(entry, i, is_training) ==
    LET takes_answer == ~entry.is_impossible /\ is_training
    IN  AlibabaExample(i, entry.question, entry.context,
                       IF takes_answer THEN entry.answers[1].text ELSE None,
                       IF takes_answer THEN entry.answers[1].answer_start ELSE None,
                       entry.is_impossible,
                       IF ~entry.is_impossible /\ ~is_training THEN entry.answers
                       ELSE <<>>)

\* line 494
RejectQuestion(example) == example.question_text = <<>>

\* mutant: the test forgets that an impossible example has no answer to find
RejectAnswerOfAny(example, is_training) ==
    /\ is_training
    /\ Slice(example.context_text, example.start_position, example.end_position + 1)
          # example.answer_text

\* lines 497-498
RejectAnswer(example, is_training) ==
    /\ is_training
    /\ ~example.is_impossible
    /\ Slice(example.context_text, example.start_position, example.end_position + 1)
          # example.answer_text

InitCreate ==
    /\ pc = "create"
    /\ input_data \in SeqsUpTo(Entries, MaxEntries)
    /\ set_type \in {"train", "dev"}
    /\ next_entry = 0
    /\ examples = <<>>
    /\ invalid_examples = <<>>
    /\ returned = None
    /\ doc_tokens = Idle /\ answer_tokens = Idle /\ input_start = Idle
    /\ input_end = Idle /\ tok_span = Idle
    /\ FeatIdle /\ MaxIdle /\ BatchIdle

\* lines 465-504: one pass of the innermost loop
CreateExample ==
    /\ pc = "create"
    /\ next_entry < Len(input_data)
    /\ LET is_training == set_type = "train"
           example == ExampleOf(input_data[next_entry + 1], next_entry, is_training)
       IN  IF RejectQuestion(example)
           THEN /\ invalid_examples' = Append(invalid_examples, example.qas_id)
                /\ UNCHANGED examples
           ELSE IF RejectAnswer(example, is_training)
                THEN /\ invalid_examples' = Append(invalid_examples, example.qas_id)
                     /\ UNCHANGED examples
                ELSE /\ examples' = Append(examples, example)
                     /\ UNCHANGED invalid_examples
    /\ next_entry' = next_entry + 1
    /\ UNCHANGED <<pc, input_data, set_type, returned, alignVars, featVars, maxVars,
                   batchVars>>

\* line 516
ReturnExamples ==
    /\ pc = "create"
    /\ next_entry = Len(input_data)
    /\ returned' = examples
    /\ pc' = "done"
    /\ UNCHANGED <<input_data, next_entry, set_type, examples, invalid_examples,
                   alignVars, featVars, maxVars, batchVars>>

NextCreate == CreateExample \/ ReturnExamples

SpecCreate == InitCreate /\ [][NextCreate]_vars

Range(s) == {s[i] : i \in 1..Len(s)}

AcceptedIds == {examples[k].qas_id : k \in 1..Len(examples)}

RejectedIds == Range(invalid_examples)

\* the rejection rule of the claim, read off the entry at 0-based index i
EmptyQuestion(i) == input_data[i + 1].question = <<>>

AnswerMismatch(i) ==
    LET entry == input_data[i + 1]
        answer_text == entry.answers[1].text
        start_position == IF answer_text # <<>> THEN entry.answers[1].answer_start ELSE 0
        end_position == IF answer_text # <<>>
                        THEN entry.answers[1].answer_start + Len(answer_text) - 1 ELSE 0
    IN  /\ set_type = "train"
        /\ ~entry.is_impossible
        /\ SubSeq(entry.context, start_position + 1, Min(end_position + 1, Len(entry.context)))
              # answer_text

Increasing(s) == \A i, j \in 1..Len(s) : i < j => s[i] < s[j]

\* C8: every entry handled so far is in exactly one of the accepted list and the
\* invalid-id list; it is rejected exactly when its question text is empty or,
\* in training mode and for an example not impossible, the context slice
\* [start_position .. end_position] differs from the answer text; accepted
\* examples keep the input order; the loop goes on after a rejection until
\* every entry is handled; and what is returned, the only examples that reach
\* feature conversion, holds no rejected example.
C8_ExampleRejection ==
    /\ AcceptedIds \cup RejectedIds = 0..(next_entry - 1)
    /\ AcceptedIds \cap RejectedIds = {}
    /\ Len(examples) + Len(invalid_examples) = next_entry
    /\ \A i \in 0..(next_entry - 1) :
          i \in RejectedIds <=> (EmptyQuestion(i) \/ AnswerMismatch(i))
    /\ Increasing([k \in 1..Len(examples) |-> examples[k].qas_id])
    /\ pc = "done" =>
          /\ next_entry = Len(input_data)
          /\ returned = examples
          /\ \A k \in 1..Len(returned) : returned[k].qas_id \notin RejectedIds

\* an empty question, then a mismatching answer, then an accepted example
C8_Witness ==
    /\ pc = "done" /\ set_type = "train" /\ Len(input_data) = 3
    /\ EmptyQuestion(0) /\ ~EmptyQuestion(1) /\ AnswerMismatch(1)
    /\ invalid_examples = <<0, 1>>
    /\ Len(returned) = 1 /\ returned[1].qas_id = 2
    /\ ~returned[1].is_impossible

-----------------------------------------------------------------------------
(* SpecBatch: convert_examples_to_features.  Pool(threads, initializer,     *)
(* initargs) starts the worker processes, each of which first runs          *)
(* convert_example_to_features_init on its own copy of the module global    *)
(* and then takes tasks; imap cuts the examples into chunks of chunksize in *)
(* input order and its iterator hands the results back by chunk index.      *)
(* The chunk size is an input of the model so that short lists make         *)
(* several chunks.                                                          *)

MaxExamples == 3
MaxThreads == 2
MaxChunkSize == 2

UniqueIdBase == 1000000000

\* the module global tokenizer of a process that has not run the initializer
Unset == [padding_side |-> "unset"]

\* the arguments of a run: evaluation mode, windows that do not overlap
BatchCall ==
    [max_seq_length |-> MaxSeqLength,
     doc_stride |-> MaxSeqLength - 1 - SequencePairAddedTokens,
     max_query_length |-> MaxQueryLength,
     is_training |-> FALSE,
     tokenizer |-> [padding_side |-> "right"]]

\* context lengths that give no window, one window and two windows
BatchDocLens == {0, 1, MaxSeqLength - SequencePairAddedTokens}

BatchExample(i, doc_len) ==
    [qas_id |-> i, question_len |-> 1, is_impossible |-> FALSE,
     doc_tokens |-> DocOf(doc_len), answer_tokens |-> <<>>,
     start_position |-> 0, end_position |-> 0]

\* annotate_(example) in a process whose global tokenizer is tok
Annotate(example, c, tok) ==
    convert_example_to_features(
        [max_seq_length |-> c.max_seq_length, doc_stride |-> c.doc_stride,
         max_query_length |-> c.max_query_length, is_training |-> c.is_training,
         is_impossible |-> example.is_impossible,
         question_len |-> example.question_len,
         padding_side |-> tok.padding_side, qas_id |-> example.qas_id],
        example.doc_tokens, example.answer_tokens,
        example.start_position, example.end_position)

NumChunks(n, chunksize) == (n + chunksize - 1) \div chunksize

\* the examples of the chunk with 1-based index chunk
ChunkOf(exs, chunksize, chunk) ==
    SubSeq(exs, (chunk - 1) * chunksize + 1, Min(chunk * chunksize, Len(exs)))

\* mutant: imap_unordered, any finished chunk is handed back
ReadyUnordered(p) == (DOMAIN p.done) \ {p.yielded[k] : k \in 1..Len(p.yielded)}

\* imap: the chunk its iterator can hand back next, if a worker has finished it
Ready(p) == {Len(p.yielded) + 1} \cap DOMAIN p.done

\* mutant: unique_id += 1 has slipped out of the inner loop
NumberListPerExample(example_features, index, id) ==
    [k \in 1..Len(example_features) |->
        [example_features[k] EXCEPT !.example_index = index, !.unique_id = id]]

\* lines 309-313: the features of one example, numbered from id on
NumberList(example_features, index, id) ==
    [k \in 1..Len(example_features) |->
        [example_features[k] EXCEPT !.example_index = index, !.unique_id = id + k - 1]]

InitBatch ==
    /\ pc = "map"
    /\ \E n \in 0..MaxExamples : \E lens \in [1..n -> BatchDocLens] :
          examples = [i \in 1..n |-> BatchExample(i - 1, lens[i])]
    /\ call = BatchCall
    /\ \E threads \in 1..MaxThreads, chunksize \in 1..MaxChunkSize :
          pool = [threads |-> threads,
                  chunksize |-> chunksize,
                  tokenizer |-> [w \in 1..threads |-> Unset],
                  running |-> [w \in 1..threads |-> 0],
                  next_task |-> 1,
                  done |-> <<>>,
                  arrived |-> <<>>,
                  yielded |-> <<>>]
    /\ features = <<>>
    /\ new_features = <<>>
    /\ unique_id = UniqueIdBase
    /\ example_index = 0
    /\ next_list = 0
    /\ doc_tokens = Idle /\ answer_tokens = Idle /\ input_start = Idle
    /\ input_end = Idle /\ tok_span = Idle
    /\ span_doc_tokens = Idle /\ spans = Idle
    /\ input_data = Idle /\ next_entry = Idle /\ set_type = Idle
    /\ invalid_examples = Idle /\ returned = Idle
    /\ MaxIdle

batchRest == <<alignVars, span_doc_tokens, spans, input_data, next_entry, set_type,
               invalid_examples, returned, maxVars>>

\* lines 231-233, run once by each worker process before any task
WorkerInit(w) ==
    /\ pc = "map"
    /\ pool.tokenizer[w] = Unset
    /\ pool' = [pool EXCEPT !.tokenizer[w] = call.tokenizer]
    /\ UNCHANGED <<pc, call, examples, features, new_features, unique_id,
                   example_index, next_list, batchRest>>

\* an idle worker takes the next chunk of the task queue
WorkerTake(w) ==
    /\ pc = "map"
    /\ pool.tokenizer[w] # Unset
    /\ pool.running[w] = 0
    /\ pool.next_task <= NumChunks(Len(examples), pool.chunksize)
    /\ pool' = [pool EXCEPT !.running[w] = pool.next_task,
                            !.next_task = pool.next_task + 1]
    /\ UNCHANGED <<pc, call, examples, features, new_features, unique_id,
                   example_index, next_list, batchRest>>

\* the worker maps annotate_ over its chunk and sends the result back
WorkerFinish(w) ==
    /\ pc = "map"
    /\ pool.running[w] # 0
    /\ LET chunk == ChunkOf(examples, pool.chunksize, pool.running[w])
           result == [k \in 1..Len(chunk) |->
                        Annotate(chunk[k], call, pool.tokenizer[w])]
       IN  pool' = [pool EXCEPT !.running[w] = 0,
                                !.done = (pool.running[w] :> result) @@ pool.done,
                                !.arrived = Append(pool.arrived, pool.running[w])]
    /\ UNCHANGED <<pc, call, examples, features, new_features, unique_id,
                   example_index, next_list, batchRest>>

\* lines 293-300: list(...) takes the next results from the imap iterator
Gather ==
    /\ pc = "map"
    /\ \E chunk \in Ready(pool) :
          /\ features' = features \o pool.done[chunk]
          /\ pool' = [pool EXCEPT !.yielded = Append(pool.yielded, chunk)]
    /\ UNCHANGED <<pc, call, examples, new_features, unique_id, example_index,
                   next_list, batchRest>>

\* the iterator is exhausted and the with block ends; lines 301-303
PoolExit ==
    /\ pc = "map"
    /\ Len(pool.yielded) = NumChunks(Len(examples), pool.chunksize)
    /\ pc' = "number"
    /\ new_features' = <<>>
    /\ unique_id' = UniqueIdBase
    /\ example_index' = 0
    /\ UNCHANGED <<call, examples, features, pool, next_list, batchRest>>

\* lines 304-314: one pass of the outer loop
NumberExample ==
    /\ pc = "number"
    /\ next_list < Len(features)
    /\ LET example_features == features[next_list + 1]
       IN  IF example_features = <<>>
           THEN UNCHANGED <<new_features, unique_id, example_index>>
           ELSE /\ new_features' = new_features
                        \o NumberList(example_features, example_index, unique_id)
                /\ unique_id' = unique_id + Len(example_features)
                /\ example_index' = example_index + 1
    /\ next_list' = next_list + 1
    /\ UNCHANGED <<pc, call, examples, features, pool, batchRest>>

\* lines 315-348
ReturnBatch ==
    /\ pc = "number"
    /\ next_list = Len(features)
    /\ features' = new_features
    /\ pc' = "done"
    /\ UNCHANGED <<call, examples, pool, new_features, unique_id, example_index,
                   next_list, batchRest>>

NextBatch ==
    \/ \E w \in DOMAIN pool.tokenizer : WorkerInit(w)
    \/ \E w \in DOMAIN pool.tokenizer : WorkerTake(w)
    \/ \E w \in DOMAIN pool.tokenizer : WorkerFinish(w)
    \/ Gather
    \/ PoolExit
    \/ NumberExample
    \/ ReturnBatch

SpecBatch == InitBatch /\ [][NextBatch]_vars

-----------------------------------------------------------------------------
(* Claims on convert_examples_to_features *)

\* the numbered features: new_features, and features once line 315 has run
Output == IF pc = "done" THEN features ELSE new_features

\* C9: the k-th feature of the output (0-based) has unique_id 1000000000 + k,
\* so unique ids are pairwise distinct and strictly increasing; example_index
\* is non-decreasing along the output; the features of one example are
\* contiguous and share one example_index.
C9_UniqueIdMonotone ==
    pc \in {"number", "done"} =>
        /\ \A k \in 1..Len(Output) : Output[k].unique_id = UniqueIdBase + (k - 1)
        /\ \A j, k \in 1..Len(Output) :
              j < k => /\ Output[j].unique_id < Output[k].unique_id
                       /\ Output[j].example_index <= Output[k].example_index
        /\ \A j, k \in 1..Len(Output) :
              (j <= k /\ Output[j].qas_id = Output[k].qas_id) =>
                  \A l \in j..k : /\ Output[l].qas_id = Output[j].qas_id
                                  /\ Output[l].example_index = Output[j].example_index

\* a finished run over three examples, the first with two features
C9_Witness ==
    /\ pc = "done"
    /\ Len(examples) = 3
    /\ Len(features) = 4
    /\ features[1].qas_id = features[2].qas_id
    /\ features[2].unique_id = UniqueIdBase + 1
    /\ features[4].qas_id = 2

\* what one process mapping annotate_ over the examples in order gives
Expected == [i \in 1..Len(examples) |-> Annotate(examples[i], call, call.tokenizer)]

\* the numbering pass over lists from the 1-based index i on
RECURSIVE NumberFrom(_, _, _, _)
NumberFrom(lists, i, index, id) ==
    IF i > Len(lists) THEN <<>>
    ELSE IF lists[i] = <<>> THEN NumberFrom(lists, i + 1, index, id)
         ELSE NumberList(lists[i], index, id)
              \o NumberFrom(lists, i + 1, index + 1, id + Len(lists[i]))

Triples(fs) ==
    [k \in 1..Len(fs) |-> <<fs[k].qas_id, fs[k].unique_id, fs[k].example_index>>]

\* C10: for every number of workers and every order in which they finish, the
\* gathered feature lists are a prefix of the lists of the examples in input
\* order; numbering starts only when every chunk has been worked and gathered
\* and no worker is running; every worker converts with the tokenizer its own
\* initializer stored; and the final (qas_id, unique_id, example_index)
\* sequence is the one of a run in a single process.
C10_OrderPreserved ==
    /\ pc = "map" =>
          /\ features = SubSeq(Expected, 1, Len(features))
          /\ new_features = <<>> /\ next_list = 0
    /\ pc \in {"number", "done"} =>
          /\ DOMAIN pool.done = 1..NumChunks(Len(examples), pool.chunksize)
          /\ \A w \in DOMAIN pool.running : pool.running[w] = 0
    /\ pc = "number" => features = Expected
    /\ \A w \in DOMAIN pool.running :
          pool.running[w] # 0 => pool.tokenizer[w] = call.tokenizer
    /\ pc = "done" =>
          Triples(features) = Triples(NumberFrom(Expected, 1, 0, UniqueIdBase))

\* two workers, the second chunk finished before the first, the run complete
C10_Witness ==
    /\ pc = "done"
    /\ pool.threads = 2
    /\ pool.arrived = <<2, 1>>
    /\ Len(features) >= 3
    /\ Triples(features) = Triples(NumberFrom(Expected, 1, 0, UniqueIdBase))

-----------------------------------------------------------------------------
(* Further claims on convert_examples_to_features *)

\* the 0-based position in examples of the example a feature was built from
InputPosition(f) == (CHOOSE i \in 1..Len(examples) : examples[i].qas_id = f.qas_id) - 1

\* C11: every output feature's example_index is the 0-based position in the
\* input list of the example it was built from, also when an example before
\* it gave an empty feature list.  Violated: line 308 skips an empty list
\* without counting it, so every later example_index falls behind.
C11_ExampleIndexIsPosition ==
    pc \in {"number", "done"} =>
        \A k \in 1..Len(Output) : Output[k].example_index = InputPosition(Output[k])

-----------------------------------------------------------------------------
(* Further claims on convert_example_to_features *)

\* the original positions start .. start + length - 1 recorded for a window
RecordedContext(span) == [i \in 1..span.length |-> span.start + i - 1]

\* the values of token_to_orig_map, in the order of their keys
MappedContext(span) ==
    [i \in 1..span.paragraph_len |->
        span.token_to_orig_map[span.truncated_query_with_special_tokens_length + i - 1]]

\* the k-th window (1-based here) encodes the context tokens that its start,
\* length and token_to_orig_map record
ChainIsStride(k) ==
    /\ spans[k].start = (k - 1) * call.doc_stride
    /\ spans[k].context = RecordedContext(spans[k])
    /\ spans[k].context = MappedContext(spans[k])

\* slicing stopped at the first window with empty overflow, which ends at
\* len(doc_tokens)
StopsAtEnd ==
    spans # <<>> =>
        /\ \A k \in 1..(Len(spans) - 1) : spans[k].overflowing_tokens # <<>>
        /\ spans[Len(spans)].overflowing_tokens = <<>>
        /\ spans[Len(spans)].start + spans[Len(spans)].length = Len(doc_tokens)

\* C12 as stated: under simple truncation, for every doc_stride, the context
\* tokens encoded in the k-th window are doc_tokens[k*doc_stride ..
\* k*doc_stride + length - 1], and slicing stops at the first window with
\* empty overflow, which ends at len(doc_tokens).  Violated when doc_stride
\* exceeds the context budget of a window.
C12_AsStated ==
    Sliced => (\A k \in 1..Len(spans) : ChainIsStride(k)) /\ StopsAtEnd

\* C12 amended: the same for every positive doc_stride not above the context
\* budget max_seq_length - len(truncated_query) - sequence_pair_added_tokens,
\* i.e. whenever the stride handed to the tokenizer is not negative.
C12_OverflowChaining ==
    (Sliced /\ 0 < call.doc_stride /\ call.doc_stride <= Budget)
        => (\A k \in 1..Len(spans) : ChainIsStride(k)) /\ StopsAtEnd

\* three windows chained through overflowing_tokens with a real overlap, the
\* third one holding the end of the context
C12_Witness ==
    /\ pc = "done"
    /\ Len(spans) = 3
    /\ 0 < call.doc_stride /\ call.doc_stride < Budget
    /\ spans[1].overflowing_tokens = RecordedContext(spans[2]) \o <<Len(doc_tokens) - 1>>
    /\ spans[3].context = RecordedContext(spans[3])
    /\ spans[3].start > 0
    /\ spans[3].overflowing_tokens = <<>>

\* the indices of input_ids (0-based) that hold a context token of the window
ContextPositions(f) ==
    {i \in 0..(Len(f.input_ids) - 1) : f.input_ids[i + 1][1] = "context"}

\* C13: in every feature, for both padding sides, p_mask is 0 exactly at the
\* CLS position and at the positions of the window's context tokens, and 1 at
\* every other position (query, separators, padding).  Violated for left
\* padding: line 175 clears p_mask from len(truncated_query) + 2 on, which
\* with two or more pad tokens in front reaches query tokens.
C13_PMaskEligibility ==
    \A k \in 1..Len(features) :
        LET f == features[k]
        IN  /\ Len(f.p_mask) = Len(f.input_ids)
            /\ \A i \in 0..(Len(f.input_ids) - 1) :
                  f.p_mask[i + 1] =
                      IF i = f.cls_index \/ i \in ContextPositions(f) THEN 0 ELSE 1

\* the keys of a map, as offsets from its smallest key
Offset(keys, i) == i - (CHOOSE m \in keys : \A n \in keys : m <= n)

\* C14: for both padding sides, token_to_orig_map and token_is_max_context of
\* every feature have the same keys, one per context token of the window, and
\* for each key i token_to_orig_map[i] is window.start plus the offset of i and
\* token_is_max_context[i] is this window's max-context verdict for that
\* original position.  Violated for left padding: line 142 keys
\* token_to_orig_map by len(truncated_query) + 2 + i whatever the side, while
\* lines 163-167 key token_is_max_context by j.
C14_MapsShareKeys ==
    \A k \in 1..Len(features) :
        LET f == features[k]
            keys == DOMAIN f.token_to_orig_map
        IN  /\ DOMAIN f.token_is_max_context = keys
            /\ Cardinality(keys) = Cardinality(ContextPositions(f))
            /\ \A i \in keys :
                  /\ f.token_to_orig_map[i] = spans[k].start + Offset(keys, i)
                  /\ f.token_is_max_context[i] =
                        _new_check_is_max_context(spans, k - 1, f.token_to_orig_map[i])

-----------------------------------------------------------------------------
(* Further claims on _improve_answer_span *)

\* the spans of doc_tokens that join to the answer text
MatchingSpans ==
    {se \in (0..(Len(doc_tokens) - 1)) \X (0..(Len(doc_tokens) - 1)) :
        Matches(doc_tokens, answer_tokens, se[1], se[2])}

\* C15: when several spans of doc_tokens join to the answer text, the result
\* is the matching span with the smallest start index and, among the matching
\* spans with that start, the one with the largest end index.
C15_TieBreak ==
    (pc = "aligned" /\ MatchingSpans # {}) =>
        /\ tok_span \in MatchingSpans
        /\ \A se \in MatchingSpans :
              \/ tok_span[1] < se[1]
              \/ tok_span[1] = se[1] /\ se[2] <= tok_span[2]

\* matching spans with a later start, and with the returned start and a
\* smaller end, so that the result is neither the only nor the shortest match
C15_Witness ==
    /\ pc = "aligned"
    /\ tok_span \in MatchingSpans
    /\ \E se \in MatchingSpans : se[1] > tok_span[1]
    /\ \E se \in MatchingSpans : se[1] = tok_span[1] /\ se[2] < tok_span[2]
    /\ tok_span # <<input_start, input_end>>

=============================================================================
